---- MODULE Spec2Model ----
(***************************************************************************)
(* Rize.io MCP server: the CacheService (services/cache.ts), the metrics   *)
(* normalizer of RizeApiService.getSummaries (services/rize-api.ts), the    *)
(* date and text formatting (utils/formatting.ts), the input validation     *)
(* (utils/validation.ts), the tool handlers (index.ts) and the start-up of  *)
(* the server process (config.ts, index.ts).                                *)
(***************************************************************************)

EXTENDS Integers, Sequences, FiniteSets, TLC

VARIABLES
    \* --- CacheService -------------------------------------------------
    cache,      \* the entries of this.cache, least recently used first
    now,        \* the clock, in milliseconds
    op,         \* the last CacheService call: name, key, the keys it removed
    ret,        \* what the last call returned
    hist,       \* history: per key, the last set and whether it was removed since
    uses,       \* history: the keys in the order of their last get/set
    \* --- Metrics normalizer -------------------------------------------
    bucket,     \* one raw bucket of response.summaries.buckets
    metric,     \* the RizeProductivityMetrics built from it
    npc,        \* "raw" before the map callback ran, "mapped" after
    \* --- Date formatting ----------------------------------------------
    stamp,      \* the value handed to formatDate / formatDateTime
    zone,       \* the local time zone of the process, minutes east of UTC
    shown,      \* what the function returned, or that it threw
    dpc,        \* "raw" before a function ran, then the function's name
    \* --- Tool handlers and RizeApiService ------------------------------
    pc,         \* where the running tool invocation stands
    call,       \* the running tool invocation: tool and parameters
    remote,     \* the remote GraphQL service: requests received from the running invocation
    sent,       \* the request the running invocation sent: query and variables
    received,   \* history: how the remote answered the running invocation
    fetched,    \* history: the last successful fetch, while no older than ttl
    looked,     \* history: the cache keys the running invocation looked up
    reply,      \* the result of the last invocation, none while it runs
    \* --- A cache built from a given configuration ----------------------
    conf,       \* the CacheConfig handed to the constructor, and how it ended
    \* --- The server process -------------------------------------------
    env,        \* the environment the process was started in
    proc,       \* the process: loading, serving or exited, and its exit code
    tasks,      \* the tool invocations in flight, one record per slot
    quota       \* history: the calls that arrived in the current rate window

vars == << cache, now, op, ret, hist, uses, bucket, metric, npc,
           stamp, zone, shown, dpc,
           pc, call, remote, sent, received, fetched, looked, reply,
           conf, env, proc, tasks, quota >>

cacheVars == << cache, now, op, ret, hist, uses >>
normVars == << bucket, metric, npc >>
dateVars == << stamp, zone, shown, dpc >>
toolVars == << pc, call, remote, sent, received, fetched, looked, reply >>
procVars == << env, proc, tasks, quota >>
serverVars == << conf, env, proc, tasks, quota >>

----------------------------------------------------------------------------
(* Bounds of the model *)

\* config.maxSize of the cache under test
MaxSize == 2
\* config.ttl of the cache under test, in clock ticks; positive
Ttl == 1
\* the clock stops advancing here
MaxTime == 3
\* the longest category list of a bucket
MaxCats == 3
\* one key more than the cache can hold
Keys == 1..(MaxSize + 1)
Values == {"v1", "v2"}
\* JavaScript's undefined
Absent == "undefined"

----------------------------------------------------------------------------
(* CacheService: a thin wrapper of lru-cache's LRUCache({max, ttl}).  The   *)
(* entries are kept as a sequence, head = least recently used, tail = most *)
(* recently used; each entry records the time it was set.                  *)

KeysOf(c) == { c[i].key : i \in 1..Len(c) }

IndexOf(c, k) == CHOOSE i \in 1..Len(c) : c[i].key = k

RemoveAt(c, i) == SubSeq(c, 1, i - 1) \o SubSeq(c, i + 1, Len(c))

\* an entry is stale as soon as it is older than ttl, ttl 0 included
IsStaleAtZero(ttl, e, t) == t - e.start > ttl

\* LRUCache built with the given ttl: an entry is stale once its age exceeds
\* ttl; with ttl 0 no expiry is tracked and nothing is ever stale
IsStaleFor(ttl, e, t) == ttl # 0 /\ t - e.start > ttl

\* LRUCache: an entry is stale once its age exceeds ttl (ttl 0: no expiry)
IsStale(e, t) == IsStaleFor(Ttl, e, t)

\* get drops the recency update: the entry keeps its place
CacheGetNoTouch(c, k, t) ==
    IF k \notin KeysOf(c)
    THEN [cache |-> c, ret |-> Absent]
    ELSE LET i == IndexOf(c, k)
         IN  IF IsStale(c[i], t)
             THEN [cache |-> RemoveAt(c, i), ret |-> Absent]
             ELSE [cache |-> c, ret |-> c[i].value]

\* get returns whatever is held, whatever its age
CacheGetNoTtl(c, k, t) ==
    IF k \notin KeysOf(c)
    THEN [cache |-> c, ret |-> Absent]
    ELSE LET i == IndexOf(c, k)
         IN  [cache |-> Append(RemoveAt(c, i), c[i]), ret |-> c[i].value]

\* CacheService.get: a stale entry is deleted and undefined returned; a
\* fresh one becomes the most recently used and its value is returned
CacheGet(c, k, t) ==
    IF k \notin KeysOf(c)
    THEN [cache |-> c, ret |-> Absent]
    ELSE LET i == IndexOf(c, k)
         IN  IF IsStale(c[i], t)
             THEN [cache |-> RemoveAt(c, i), ret |-> Absent]
             ELSE [cache |-> Append(RemoveAt(c, i), c[i]), ret |-> c[i].value]

\* set keeps the value an existing key already holds
CacheSetKeepOld(c, k, v, t) ==
    IF k \in KeysOf(c)
    THEN LET i == IndexOf(c, k)
         IN  Append(RemoveAt(c, i), [key |-> k, value |-> c[i].value, start |-> t])
    ELSE IF Len(c) >= MaxSize
         THEN Append(Tail(c), [key |-> k, value |-> v, start |-> t])
         ELSE Append(c, [key |-> k, value |-> v, start |-> t])

\* CacheService.set: an existing key is overwritten, restamped and becomes
\* the most recently used; a new key at capacity evicts the head first
CacheSet(c, k, v, t) ==
    IF k \in KeysOf(c)
    THEN Append(RemoveAt(c, IndexOf(c, k)), [key |-> k, value |-> v, start |-> t])
    ELSE IF Len(c) >= MaxSize
         THEN Append(Tail(c), [key |-> k, value |-> v, start |-> t])
         ELSE Append(c, [key |-> k, value |-> v, start |-> t])

\* delete removes nothing
CacheDeleteNothing(c, k) == c

\* CacheService.delete
CacheDelete(c, k) ==
    IF k \in KeysOf(c) THEN RemoveAt(c, IndexOf(c, k)) ELSE c

\* CacheService.clear
CacheClear(c) == << >>

\* CacheService.has: true for a held, fresh entry; recency is not touched
\* and a stale entry is not removed
CacheHas(c, k, t) ==
    k \in KeysOf(c) /\ ~IsStale(c[IndexOf(c, k)], t)

\* CacheService.size: the number of entries held
CacheSize(c) == Len(c)

\* CacheService.get of a cache built with the given ttl
GetWithTtl(ttl, c, k, t) ==
    IF k \notin KeysOf(c)
    THEN [cache |-> c, ret |-> Absent]
    ELSE LET i == IndexOf(c, k)
         IN  IF IsStaleFor(ttl, c[i], t)
             THEN [cache |-> RemoveAt(c, i), ret |-> Absent]
             ELSE [cache |-> Append(RemoveAt(c, i), c[i]), ret |-> c[i].value]

\* CacheService.has of a cache built with the given ttl
HasWithTtl(ttl, c, k, t) ==
    k \in KeysOf(c) /\ ~IsStaleFor(ttl, c[IndexOf(c, k)], t)

\* new CacheService(config) is new LRUCache({max, ttl}): ttl 0 builds a cache
\* without expiry; any other ttl has to be a positive integer, or the
\* constructor throws a TypeError and no cache exists
NoConf == [state |-> "none", ttl |-> 0]
NewCache(ttl) ==
    IF ttl # 0 /\ ~(ttl > 0)
    THEN [state |-> "threw", ttl |-> ttl]
    ELSE [state |-> "built", ttl |-> ttl]

\* the cache the other sections work on: built with config.ttl = Ttl
BuiltCache == NewCache(Ttl)

----------------------------------------------------------------------------
(* The cache under an arbitrary sequence of calls and clock advances *)

NoOp ==
    [name |-> "none", key |-> 0, over |-> FALSE, afterSet |-> "no", removed |-> {},
     full |-> FALSE, lru |-> 0]
NoRet == [val |-> Absent, bool |-> FALSE, num |-> 0]
NeverSet == [live |-> FALSE, at |-> 0, val |-> Absent]

\* k becomes the most recently used key of u
Touch(u, k) == Append(SelectSeq(u, LAMBDA x : x # k), k)

\* the keys of ks are forgotten: removed since their last set
Forget(h, ks) == [k \in Keys |-> IF k \in ks THEN NeverSet ELSE h[k]]

CacheInit ==
    /\ cache = << >>
    /\ now = 1
    /\ op = NoOp
    /\ ret = NoRet
    /\ hist = [k \in Keys |-> NeverSet]
    /\ uses = << >>

Get(k) ==
    LET r == CacheGet(cache, k, now)
        gone == KeysOf(cache) \ KeysOf(r.cache)
    IN  /\ cache' = r.cache
        /\ ret' = [NoRet EXCEPT !.val = r.ret]
        /\ op' = [NoOp EXCEPT !.name = "get", !.key = k, !.removed = gone,
                               !.afterSet = IF op.name = "set" /\ op.key = k
                                            THEN (IF op.over THEN "overwrite" ELSE "insert")
                                            ELSE "no"]
        /\ hist' = Forget(hist, gone)
        /\ uses' = SelectSeq(Touch(uses, k), LAMBDA x : x \in KeysOf(r.cache))
        /\ UNCHANGED now

Set(k, v) ==
    LET c == CacheSet(cache, k, v, now)
        gone == KeysOf(cache) \ KeysOf(c)
    IN  /\ cache' = c
        /\ ret' = NoRet
        /\ op' = [NoOp EXCEPT !.name = "set", !.key = k, !.removed = gone,
                               !.over = (hist[k].live /\ hist[k].val # v),
                               !.full = (k \notin KeysOf(cache) /\ Len(cache) = MaxSize),
                               !.lru = IF k \notin KeysOf(cache) /\ Len(cache) = MaxSize
                                       THEN Head(uses) ELSE 0]
        /\ hist' = [Forget(hist, gone) EXCEPT ![k] = [live |-> TRUE, at |-> now, val |-> v]]
        /\ uses' = SelectSeq(Touch(uses, k), LAMBDA x : x \in KeysOf(c))
        /\ UNCHANGED now

Delete(k) ==
    LET c == CacheDelete(cache, k)
    IN  /\ cache' = c
        /\ ret' = NoRet
        /\ op' = [NoOp EXCEPT !.name = "delete", !.key = k,
                               !.removed = KeysOf(cache) \ KeysOf(c)]
        /\ hist' = Forget(hist, {k})
        /\ uses' = SelectSeq(uses, LAMBDA x : x \in KeysOf(c))
        /\ UNCHANGED now

Clear ==
    /\ cache' = CacheClear(cache)
    /\ ret' = NoRet
    /\ op' = [NoOp EXCEPT !.name = "clear", !.removed = KeysOf(cache)]
    /\ hist' = Forget(hist, Keys)
    /\ uses' = SelectSeq(uses, LAMBDA x : x \in KeysOf(cache'))
    /\ UNCHANGED now

Has(k) ==
    /\ ret' = [NoRet EXCEPT !.bool = CacheHas(cache, k, now)]
    /\ op' = [NoOp EXCEPT !.name = "has"]
    /\ UNCHANGED << cache, now, hist, uses >>

Size ==
    /\ ret' = [NoRet EXCEPT !.num = CacheSize(cache)]
    /\ op' = [NoOp EXCEPT !.name = "size"]
    /\ UNCHANGED << cache, now, hist, uses >>

Tick ==
    /\ now < MaxTime
    /\ now' = now + 1
    /\ op' = [NoOp EXCEPT !.name = "tick"]
    /\ UNCHANGED << cache, ret, hist, uses >>

\* the calls and the clock, on a cache that nothing else uses
DoGet == (\E k \in Keys : Get(k)) /\ UNCHANGED << normVars, dateVars, toolVars, serverVars >>
DoSet == (\E k \in Keys, v \in Values : Set(k, v)) /\ UNCHANGED << normVars, dateVars, toolVars, serverVars >>
DoDelete == (\E k \in Keys : Delete(k)) /\ UNCHANGED << normVars, dateVars, toolVars, serverVars >>
DoClear == Clear /\ UNCHANGED << normVars, dateVars, toolVars, serverVars >>
DoHas == (\E k \in Keys : Has(k)) /\ UNCHANGED << normVars, dateVars, toolVars, serverVars >>
DoSize == Size /\ UNCHANGED << normVars, dateVars, toolVars, serverVars >>
DoTick == Tick /\ UNCHANGED << normVars, dateVars, toolVars, serverVars >>

----------------------------------------------------------------------------
(* A cache built with a ttl of 0 or below, then used.  The calls are those  *)
(* above, on the LRUCache the constructor returned.                         *)

\* the ttl values handed to the constructor
Ttls == {0 - 2, 0 - 1, 0}

\* new CacheService({maxSize, ttl})
Construct ==
    /\ conf.state = "none"
    /\ \E ttl \in Ttls : conf' = NewCache(ttl)
    /\ UNCHANGED << cacheVars, normVars, dateVars, toolVars, procVars >>

BuiltSet ==
    /\ conf.state = "built"
    /\ \E k \in Keys, v \in Values : Set(k, v)
    /\ UNCHANGED << normVars, dateVars, toolVars, serverVars >>

BuiltGet ==
    /\ conf.state = "built"
    /\ \E k \in Keys :
          LET r == GetWithTtl(conf.ttl, cache, k, now)
              gone == KeysOf(cache) \ KeysOf(r.cache)
          IN  /\ cache' = r.cache
              /\ ret' = [NoRet EXCEPT !.val = r.ret]
              /\ op' = [NoOp EXCEPT !.name = "get", !.key = k, !.removed = gone,
                                     !.over = hist[k].live]
              /\ hist' = Forget(hist, gone)
              /\ uses' = SelectSeq(Touch(uses, k), LAMBDA x : x \in KeysOf(r.cache))
    /\ UNCHANGED << now, normVars, dateVars, toolVars, serverVars >>

BuiltHas ==
    /\ conf.state = "built"
    /\ \E k \in Keys :
          /\ ret' = [NoRet EXCEPT !.bool = HasWithTtl(conf.ttl, cache, k, now)]
          /\ op' = [NoOp EXCEPT !.name = "has", !.over = hist[k].live]
    /\ UNCHANGED << cache, now, hist, uses, normVars, dateVars, toolVars, serverVars >>

BuiltTick ==
    /\ conf.state = "built"
    /\ Tick
    /\ UNCHANGED << normVars, dateVars, toolVars, serverVars >>

----------------------------------------------------------------------------
(* The metrics normalizer: the callback of buckets.map in getSummaries.    *)
(* Times are whole seconds; Missing stands for a field the remote left     *)
(* null or did not send.                                                   *)

Missing == 0 - 1

\* x || 0
OrZero(x) == IF x = Missing \/ x = 0 THEN 0 ELSE x

\* minutes rounded up
FloorMinutesUp(n) == (n + 59) \div 60

\* Math.floor(n / 60) of a non-negative n
FloorMinutes(n) == n \div 60

\* truncation instead of rounding
RoundPercentTrunc(f, t) == (100 * f) \div t

\* Math.round((f / t) * 100) of f >= 0, t > 0: halves round up
RoundPercent(f, t) == (200 * f + t) \div (2 * t)

\* the reduce callback with >= : a later tie replaces the earlier entry
ReduceStepLastTie(prev, curr) == IF curr.timeSpent >= prev.timeSpent THEN curr ELSE prev

\* (prev, curr) => curr.timeSpent > prev.timeSpent ? curr : prev
ReduceStep(prev, curr) == IF curr.timeSpent > prev.timeSpent THEN curr ELSE prev

\* cats.reduce(callback) without an initial value: starts from cats[1]
RECURSIVE ReduceFrom(_, _, _)
ReduceFrom(prev, cats, i) ==
    IF i > Len(cats) THEN prev ELSE ReduceFrom(ReduceStep(prev, cats[i]), cats, i + 1)

TopCat(cats) == ReduceFrom(cats[1], cats, 2)

\* let topCategory: any = 'Work'
DefaultTopCategory == [type |-> "string", str |-> "Work"]

\* the default depends on the bucket, and a session is counted
NoCategoriesPerBucket(b) ==
    [topCategory |-> [type |-> "string", str |-> b.date], focusSessionsCount |-> 1]

\* the defaults that stand when the category list is missing or empty
NoCategories(b) ==
    [topCategory |-> DefaultTopCategory, focusSessionsCount |-> 0]

\* any top category with time counts as a session, focus or not
FocusSessionsAnyTop(topCat) == IF topCat.timeSpent > 0 THEN 1 ELSE 0

\* if (topCat.category.focus === true) topCat.timeSpent > 0 ? 1 : 0; else 0
FocusSessions(topCat) ==
    IF topCat.focus = TRUE
    THEN (IF topCat.timeSpent > 0 THEN 1 ELSE 0)
    ELSE 0

\* bucket.categories && bucket.categories.length > 0
HasCategories(b) == b.categories.present /\ Len(b.categories.list) > 0

\* the part of the callback that picks topCategory and focusSessionsCount
PickCategory(b) ==
    IF HasCategories(b)
    THEN LET topCat == TopCat(b.categories.list)
         IN  [topCategory |-> [type |-> "object",
                               name |-> topCat.name,
                               timeSpent |-> FloorMinutes(topCat.timeSpent),
                               focus |-> topCat.focus],
              focusSessionsCount |-> FocusSessions(topCat)]
    ELSE NoCategories(b)

\* bucket.focusTime && bucket.trackedTime ? Math.round(...) : 0
ProductivityScore(b) ==
    IF OrZero(b.focusTime) # 0 /\ OrZero(b.trackedTime) # 0
    THEN RoundPercent(b.focusTime, b.trackedTime)
    ELSE 0

\* the object the map callback returns
NormalizeBucket(b) ==
    LET p == PickCategory(b)
    IN  [date |-> b.date,
         totalFocusTime |-> FloorMinutes(OrZero(b.focusTime)),
         productivityScore |-> ProductivityScore(b),
         focusSessionsCount |-> p.focusSessionsCount,
         topCategory |-> p.topCategory,
         breakTime |-> FloorMinutes(OrZero(b.breakTime)),
         distractionTime |-> FloorMinutes(OrZero(b.meetingTime)),
         contextSwitches |-> 0]

\* buckets.map(callback)
RECURSIVE MapBuckets(_)
MapBuckets(bs) ==
    IF bs = << >> THEN << >> ELSE << NormalizeBucket(Head(bs)) >> \o MapBuckets(Tail(bs))

----------------------------------------------------------------------------
(* The buckets the remote can send *)

FocusTimes == {Missing, 0, 59, 6337, 7200}
TrackedTimes == {Missing, 0, 3600, 7200}
OtherTimes == {Missing, 125}
CategoryEntries ==
    [name : {"Code", "Mail"}, timeSpent : {0, 130}, focus : BOOLEAN] \cup
    [name : {"Code", "Mail"}, timeSpent : {30}, focus : {TRUE}]

SeqsUpTo(S, n) == UNION { [1..m -> S] : m \in 0..n }

CategoryLists ==
    { [present |-> FALSE, list |-> << >>] } \cup
    { [present |-> TRUE, list |-> l] : l \in SeqsUpTo(CategoryEntries, MaxCats) }

Buckets ==
    [date : {"2025-09-05"}, focusTime : FocusTimes, breakTime : OtherTimes,
     meetingTime : OtherTimes, trackedTime : TrackedTimes,
     categories : CategoryLists]

NoMetric ==
    [date |-> "", totalFocusTime |-> 0, productivityScore |-> 0,
     focusSessionsCount |-> 0, topCategory |-> DefaultTopCategory,
     breakTime |-> 0, distractionTime |-> 0, contextSwitches |-> 0]

NormInit ==
    /\ bucket \in Buckets
    /\ metric = NoMetric
    /\ npc = "raw"

NormIdle ==
    /\ bucket = [date |-> "", focusTime |-> Missing, breakTime |-> Missing,
                 meetingTime |-> Missing, trackedTime |-> Missing,
                 categories |-> [present |-> FALSE, list |-> << >>]]
    /\ metric = NoMetric
    /\ npc = "raw"

\* the map callback runs on the bucket
MapBucket ==
    /\ npc = "raw"
    /\ metric' = NormalizeBucket(bucket)
    /\ npc' = "mapped"
    /\ UNCHANGED << bucket, cacheVars, dateVars, toolVars, serverVars >>

----------------------------------------------------------------------------
(* Date formatting (utils/formatting.ts).  A string is the sequence of its  *)
(* characters.  parseISO and format are date-fns 2.30, modelled for the     *)
(* shapes the inputs below take: YYYY-MM-DD dates, HH:MM:SS times and       *)
(* Z, +hh, +hhmm or +hh:mm offsets.                                         *)

Digits == {"0", "1", "2", "3", "4", "5", "6", "7", "8", "9"}

DigitChars == << "0", "1", "2", "3", "4", "5", "6", "7", "8", "9" >>

DigitVal(ch) == (CHOOSE i \in 1..10 : DigitChars[i] = ch) - 1

IsDigits(s) == \A i \in 1..Len(s) : s[i] \in Digits

\* the number a two-digit field spells
Num2(s) == 10 * DigitVal(s[1]) + DigitVal(s[2])

\* a number below 100 as a two-digit field
TwoDigits(n) == << DigitChars[(n \div 10) + 1], DigitChars[(n % 10) + 1] >>

\* the first position of s holding a character of set cs (0 when none does)
FirstOf(s, cs) ==
    IF \E i \in 1..Len(s) : s[i] \in cs
    THEN CHOOSE i \in 1..Len(s) : s[i] \in cs /\ \A j \in 1..(i - 1) : s[j] \notin cs
    ELSE 0

\* dateString.replace(' ', 'T'): a string pattern replaces its first match only
ReplaceFirstSpace(s) ==
    LET i == FirstOf(s, {" "})
    IN  IF i = 0 THEN s ELSE [s EXCEPT ![i] = "T"]

\* isoDate.replace(/([+-])(\d{2})(\d{2})$/, '$1$2:$3')
ColonOffset(s) ==
    LET n == Len(s)
    IN  IF n >= 5 /\ s[n - 4] \in {"+", "-"} /\ IsDigits(SubSeq(s, n - 3, n))
        THEN SubSeq(s, 1, n - 2) \o << ":" >> \o SubSeq(s, n - 1, n)
        ELSE s

\* a value a function returns, and the outcome of a function that threw
Returned(s) == [threw |-> FALSE, chars |-> s]
Thrown == [threw |-> TRUE, chars |-> << >>]

\* convertRizeDateToISO: throws on a falsy or non-string argument
ConvertRizeDateToISO(d) ==
    IF d.type # "string" \/ d.chars = << >>
    THEN Thrown
    ELSE Returned(ColonOffset(ReplaceFirstSpace(d.chars)))

\* String.prototype.split on a set of one-character delimiters
RECURSIVE Split(_, _)
Split(s, cs) ==
    LET i == FirstOf(s, cs)
    IN  IF i = 0
        THEN << s >>
        ELSE << SubSeq(s, 1, i - 1) >> \o Split(SubSeq(s, i + 1, Len(s)), cs)

DaysInMonth == << 31, 28, 31, 30, 31, 30, 31, 31, 30, 31, 30, 31 >>

\* parseDate: YYYY-MM-DD with a month of the year and a day of the month
IsDate(s) ==
    /\ Len(s) = 10
    /\ s[5] = "-" /\ s[8] = "-"
    /\ IsDigits(SubSeq(s, 1, 4)) /\ IsDigits(SubSeq(s, 6, 7)) /\ IsDigits(SubSeq(s, 9, 10))
    /\ Num2(SubSeq(s, 6, 7)) \in 1..12
    /\ Num2(SubSeq(s, 9, 10)) \in 1..DaysInMonth[Num2(SubSeq(s, 6, 7))]

\* parseTime: HH:MM:SS
IsTime(s) ==
    /\ Len(s) = 8
    /\ s[3] = ":" /\ s[6] = ":"
    /\ IsDigits(SubSeq(s, 1, 2)) /\ IsDigits(SubSeq(s, 4, 5)) /\ IsDigits(SubSeq(s, 7, 8))
    /\ Num2(SubSeq(s, 1, 2)) < 24 /\ Num2(SubSeq(s, 4, 5)) < 60 /\ Num2(SubSeq(s, 7, 8)) < 60

\* parseTimezone: Z, or a sign, two digits of hours and optionally minutes
IsOffset(s) ==
    \/ s = << "Z" >>
    \/ /\ Len(s) \in {3, 5, 6}
       /\ s[1] \in {"+", "-"}
       /\ IsDigits(SubSeq(s, 2, 3))
       /\ Len(s) = 5 => IsDigits(SubSeq(s, 4, 5)) /\ Num2(SubSeq(s, 4, 5)) < 60
       /\ Len(s) = 6 => s[4] = ":" /\ IsDigits(SubSeq(s, 5, 6)) /\ Num2(SubSeq(s, 5, 6)) < 60

\* the minutes east of UTC an offset spells
OffsetMinutes(s) ==
    IF s = << "Z" >> THEN 0
    ELSE LET mins == 60 * Num2(SubSeq(s, 2, 3)) +
                     (IF Len(s) = 3 THEN 0 ELSE Num2(SubSeq(s, Len(s) - 1, Len(s))))
         IN  IF s[1] = "-" THEN 0 - mins ELSE mins

InvalidTime == [valid |-> FALSE, month |-> << >>, day |-> 0, secs |-> 0, utc |-> FALSE]

\* parseISO: splitDateString splits on /[T ]/ and gives up on more than two
\* parts; the time part is cut at the first Z, + or -.  The result is a day
\* of a month and the seconds of that day, in UTC when an offset was given
\* and in local time otherwise; Invalid Date when a part does not parse.
ParseISO(s) ==
    LET parts == Split(s, {"T", " "})
        date == parts[1]
        rest == IF Len(parts) = 2 THEN parts[2] ELSE << >>
        z == FirstOf(rest, {"Z", "+", "-"})
        time == IF z = 0 THEN rest ELSE SubSeq(rest, 1, z - 1)
        tz == IF z = 0 THEN << >> ELSE SubSeq(rest, z, Len(rest))
    IN  IF Len(parts) > 2 \/ ~IsDate(date) THEN InvalidTime
        ELSE IF time # << >> /\ ~IsTime(time) THEN InvalidTime
        ELSE IF tz # << >> /\ ~IsOffset(tz) THEN InvalidTime
        ELSE LET secs == IF time = << >> THEN 0
                         ELSE 3600 * Num2(SubSeq(time, 1, 2)) + 60 * Num2(SubSeq(time, 4, 5))
                              + Num2(SubSeq(time, 7, 8))
             IN  [valid |-> TRUE, month |-> SubSeq(date, 1, 8),
                  day |-> Num2(SubSeq(date, 9, 10)),
                  secs |-> IF tz = << >> THEN secs ELSE secs - 60 * OffsetMinutes(tz),
                  utc |-> tz # << >>]

\* format(date, 'yyyy-MM-dd') or format(date, 'yyyy-MM-dd HH:mm:ss') in the
\* local zone z; the inputs stay within their month
Format(t, z, withTime) ==
    LET local == IF t.utc THEN t.secs + 60 * z ELSE t.secs
        day == t.day + (local \div 86400)
        secs == local % 86400
    IN  t.month \o TwoDigits(day) \o
        (IF withTime
         THEN << " " >> \o TwoDigits(secs \div 3600) \o << ":" >> \o
              TwoDigits((secs % 3600) \div 60) \o << ":" >> \o TwoDigits(secs % 60)
         ELSE << >>)

\* the body of the try block: format throws a RangeError on an Invalid Date
Formatting(d, z, withTime) ==
    LET iso == ConvertRizeDateToISO(d)
    IN  IF iso.threw THEN Thrown
        ELSE LET t == ParseISO(iso.chars)
             IN  IF t.valid THEN Returned(Format(t, z, withTime)) ELSE Thrown

InvalidDate == << "I", "n", "v", "a", "l", "i", "d", " ", "D", "a", "t", "e" >>
InvalidDateTime == << "I", "n", "v", "a", "l", "i", "d", " ", "D", "a", "t", "e", "T", "i", "m", "e" >>

\* the error leaves the function
FormatDateTimeUncaught(d, z) == Formatting(d, z, TRUE)

\* formatDate: catch (error) { return 'Invalid Date' }
FormatDate(d, z) ==
    LET r == Formatting(d, z, FALSE)
    IN  IF r.threw THEN Returned(InvalidDate) ELSE r

\* formatDateTime: catch (error) { return 'Invalid DateTime' }
FormatDateTime(d, z) ==
    LET r == Formatting(d, z, TRUE)
    IN  IF r.threw THEN Returned(InvalidDateTime) ELSE r

\* the values the functions are called with
Str(s) == [type |-> "string", chars |-> s]

DayParts == { << "2", "0", "2", "5", "-", "0", "9", "-", "0", "5" >>,
              << "2", "0", "2", "5", "-", "0", "9", "-", "1", "6" >> }
TimeParts == { << "0", "4", ":", "0", "0", ":", "0", "0" >>,
               << "2", "3", ":", "3", "0", ":", "1", "5" >> }
OffsetParts == { << >>, << "+", "0", "2", "0", "0" >>, << "-", "0", "5", "3", "0" >>, << "+", "0", "2", ":", "0", "0" >>, << "+", "0", "2" >>, << "Z" >> }

\* strings that are no date
Unparsable == { << "y", "e", "s", "t", "e", "r", "d", "a", "y" >>, << "2", "0", "2", "5", "-", "1", "3", "-", "0", "5" >> }

\* "YYYY-MM-DD HH:MM:SS +hhmm", what the remote sends
RizeStamps ==
    { d \o << " " >> \o t \o << " " >> \o o :
        d \in DayParts, t \in TimeParts, o \in { << "+", "0", "2", "0", "0" >>, << "-", "0", "5", "3", "0" >> } }

Stamps ==
    { Str(s) : s \in RizeStamps } \cup
    { Str(d \o sep \o t \o o) :
        d \in DayParts, sep \in {<< " " >>, << "T" >>}, t \in TimeParts, o \in OffsetParts } \cup
    { Str(d) : d \in DayParts } \cup
    { Str(s) : s \in Unparsable } \cup
    { Str(<< >>),
      [type |-> "undefined", chars |-> << >>], [type |-> "number", chars |-> << >>] }

Zones == {0 - 300, 0, 120}

DateInit ==
    /\ stamp \in Stamps
    /\ zone \in Zones
    /\ shown = Returned(<< >>)
    /\ dpc = "raw"

DateIdle ==
    /\ stamp = Str(<< >>)
    /\ zone = 0
    /\ shown = Returned(<< >>)
    /\ dpc = "raw"

CallConvert ==
    /\ dpc = "raw"
    /\ shown' = ConvertRizeDateToISO(stamp)
    /\ dpc' = "convertRizeDateToISO"
    /\ UNCHANGED << stamp, zone, cacheVars, normVars, toolVars, serverVars >>

CallFormatDate ==
    /\ dpc = "raw"
    /\ shown' = FormatDate(stamp, zone)
    /\ dpc' = "formatDate"
    /\ UNCHANGED << stamp, zone, cacheVars, normVars, toolVars, serverVars >>

CallFormatDateTime ==
    /\ dpc = "raw"
    /\ shown' = FormatDateTime(stamp, zone)
    /\ dpc' = "formatDateTime"
    /\ UNCHANGED << stamp, zone, cacheVars, normVars, toolVars, serverVars >>

----------------------------------------------------------------------------
(* The tool handlers of index.ts and the RizeApiService methods they call.  *)
(* One invocation runs at a time; it is suspended while its remote request  *)
(* is awaited.                                                              *)

\* a date parameter: a calendar day, or 0 for a string Date.parse rejects
Dates == {0, 1, 2}

\* the order of the two dates is not looked at
ValidRangeAnyOrder(sd, ed) == sd # 0 /\ ed # 0

\* DateRangeSchema: both dates parse, and startDate <= endDate
ValidRange(sd, ed) == sd # 0 /\ ed # 0 /\ sd <= ed

\* the startDate and endDate the tools are called with
RangeParams == { << 0, 1 >>, << 1, 0 >>, << 2, 1 >>, << 1, 1 >>, << 1, 2 >> }

NeverFetched == [range |-> << 0, 0 >>, at |-> 0]

\* what response.summaries.buckets can hold
SampleBucket ==
    [date |-> "2025-09-05", focusTime |-> 6337, breakTime |-> 125,
     meetingTime |-> Missing, trackedTime |-> 7200,
     categories |-> [present |-> TRUE,
                     list |-> << [name |-> "Code", timeSpent |-> 130, focus |-> TRUE] >>]]
BareBucket ==
    [date |-> "2025-09-05", focusTime |-> 0, breakTime |-> Missing,
     meetingTime |-> Missing, trackedTime |-> 0,
     categories |-> [present |-> FALSE, list |-> << >>]]
\* a null element of the list: the callback throws a TypeError on bucket.categories
NullBucket == [null |-> TRUE]

Responses ==
    { << >>, << SampleBucket >>, << SampleBucket, BareBucket >>,
      << SampleBucket, NullBucket >> }

IsNull(b) == DOMAIN b = {"null"}

\* the map callback throws on some bucket of the list
CallbackThrows(bs) == \E i \in 1..Len(bs) : IsNull(bs[i])

\* a response of the remote: answered or failed, and the list it carried
Answer(q, body) == [query |-> q, ok |-> TRUE, body |-> body]
Failure(q) == [query |-> q, ok |-> FALSE, body |-> << >>]
NoResponse == [query |-> "none", ok |-> FALSE, body |-> << >>]

\* the buckets mapped before the callback threw are returned
GetSummariesPartial(resp) ==
    IF ~resp.ok THEN << >>
    ELSE IF CallbackThrows(resp.body)
         THEN MapBuckets(SubSeq(resp.body, 1,
                  (CHOOSE i \in 1..Len(resp.body) :
                      IsNull(resp.body[i]) /\ \A j \in 1..(i - 1) : ~IsNull(resp.body[j])) - 1))
         ELSE MapBuckets(resp.body)

\* getSummaries: the request and buckets.map run inside try; catch returns []
GetSummaries(resp) ==
    IF ~resp.ok \/ CallbackThrows(resp.body) THEN << >> ELSE MapBuckets(resp.body)

\* the sum of a sequence of numbers
RECURSIVE Sum(_)
Sum(ns) == IF ns = << >> THEN 0 ELSE Head(ns) + Sum(Tail(ns))

\* formatDuration
FormatDuration(minutes) ==
    IF minutes \div 60 > 0
    THEN ToString(minutes \div 60) \o "h " \o ToString(minutes % 60) \o "m"
    ELSE ToString(minutes % 60) \o "m"

\* (total / n).toFixed(1)
ToFixed1(total, n) ==
    LET tenths == (20 * total + n) \div (2 * n)
    IN  ToString(tenths \div 10) \o "." \o ToString(tenths % 10)

NoDataText == << "No productivity data available for the specified date range." >>

\* the summary is written whatever the number of days
FormatProductivityMetricsAlways(ms) ==
    << "Productivity Metrics Summary (" \o ToString(Len(ms)) \o " days)" >>

\* formatProductivityMetrics: the lines of the text, emoji and blank lines
\* left out
FormatProductivityMetrics(ms) ==
    IF Len(ms) = 0 THEN NoDataText
    ELSE << "Productivity Metrics Summary (" \o ToString(Len(ms)) \o " days)",
            "Total Focus Time: " \o
                FormatDuration(Sum([i \in 1..Len(ms) |-> ms[i].totalFocusTime])),
            "Average Productivity Score: " \o
                ToFixed1(Sum([i \in 1..Len(ms) |-> ms[i].productivityScore]), Len(ms)) \o "/100",
            "Total Focus Sessions: " \o
                ToString(Sum([i \in 1..Len(ms) |-> ms[i].focusSessionsCount])),
            "Daily Breakdown:" >> \o
         [i \in 1..Len(ms) |->
            ms[i].date \o ": " \o FormatDuration(ms[i].totalFocusTime) \o " focus time, " \o
            ToString(ms[i].productivityScore) \o "/100 score, " \o
            ToString(ms[i].focusSessionsCount) \o " focus sessions"]

\* response.currentUser
User == "user"

\* what response.sessions can hold: startTime and endTime are timestamps of
\* the remote's format, endTime null (here empty) while the session runs
DoneSession ==
    [startTime |-> << "2", "0", "2", "5", "-", "0", "9", "-", "0", "5", " ", "0", "4", ":", "0", "0", ":", "0", "0", " ", "+", "0", "2", "0", "0" >>,
     endTime |-> << "2", "0", "2", "5", "-", "0", "9", "-", "0", "5", " ", "0", "4", ":", "4", "5", ":", "3", "0", " ", "+", "0", "2", "0", "0" >>,
     title |-> "Deep work"]
OpenSession ==
    [startTime |-> << "2", "0", "2", "5", "-", "0", "9", "-", "0", "5", " ", "2", "3", ":", "3", "0", ":", "1", "5", " ", "+", "0", "2", "0", "0" >>,
     endTime |-> << >>,
     title |-> "Review"]
SessionResponses == { << >>, << DoneSession >>, << DoneSession, OpenSession >> }

\* new Date(s).getTime() in seconds, counted from the start of the month, for
\* a timestamp "YYYY-MM-DD HH:MM:SS +hhmm"
EpochSeconds(s) ==
    LET parts == Split(s, {" "})
        t == ParseISO(parts[1] \o << "T" >> \o parts[2] \o parts[3])
    IN  86400 * t.day + t.secs

\* session.endTime && session.startTime ? Math.floor((end - start) / (1000 * 60)) : 0
Duration(session) ==
    IF session.endTime # << >> /\ session.startTime # << >>
    THEN (EpochSeconds(session.endTime) - EpochSeconds(session.startTime)) \div 60
    ELSE 0

\* the object the sessions.map callback returns
MapSession(session) ==
    [startTime |-> session.startTime, endTime |-> session.endTime,
     duration |-> Duration(session), focusScore |-> 0, category |-> "Unknown",
     application |-> "Unknown", title |-> session.title, isActive |-> FALSE]

\* getFocusSessions: the request and sessions.map run inside try; catch returns []
GetFocusSessions(resp) ==
    IF ~resp.ok THEN << >> ELSE [i \in 1..Len(resp.body) |-> MapSession(resp.body[i])]

\* a session of exactly minDuration minutes is dropped
FilterSessionsStrict(ss, minDuration) ==
    IF minDuration # 0
    THEN SelectSeq(ss, LAMBDA x : x.duration > minDuration)
    ELSE ss

\* if (minDuration) sessions.filter(session => (session.duration || 0) >= minDuration)
FilterSessions(ss, minDuration) ==
    IF minDuration # 0
    THEN SelectSeq(ss, LAMBDA x : x.duration >= minDuration)
    ELSE ss

\* the characters of a string put together
RECURSIVE Join(_)
Join(cs) == IF cs = << >> THEN "" ELSE Head(cs) \o Join(Tail(cs))

NoSessionsText == << "No focus sessions found for the specified criteria." >>

\* the lines formatFocusSessions writes for one session
SessionLines(x, z) ==
    << Join(FormatDateTime(Str(x.startTime), z).chars) \o " - " \o
           (IF x.endTime # << >> THEN Join(FormatDateTime(Str(x.endTime), z).chars)
            ELSE "Active"),
       "Duration: " \o FormatDuration(x.duration) \o ", Score: " \o ToString(x.focusScore)
           \o "/100, App: " \o x.application,
       "Category: " \o x.category \o ", Title: " \o x.title >>

RECURSIVE AllSessionLines(_, _)
AllSessionLines(ss, z) ==
    IF ss = << >> THEN << >> ELSE SessionLines(Head(ss), z) \o AllSessionLines(Tail(ss), z)

\* formatFocusSessions: the lines of the text, emoji and blank lines left out
FormatFocusSessions(ss, z) ==
    IF Len(ss) = 0 THEN NoSessionsText
    ELSE << "Focus Sessions Summary (" \o ToString(Len(ss)) \o " sessions)",
            "Total Duration: " \o FormatDuration(Sum([i \in 1..Len(ss) |-> ss[i].duration])),
            "Average Focus Score: " \o
                ToFixed1(Sum([i \in 1..Len(ss) |-> ss[i].focusScore]), Len(ss)) \o "/100",
            "Session Details:" >> \o AllSessionLines(ss, z)

\* the tool parameters
MinDurations == {0, 45, 60}
Timeframes == {"day", "year"}
Insights == {TRUE}
Limits == {0, 1, 100, 101}

\* TimeframeSchema
ValidTimeframe(tf) == tf \in {"day", "week", "month"}

\* PaginationSchema: limit min(1) max(100)
ValidLimit(l) == 1 <= l /\ l <= 100

\* response.projects.edges: the project names
ProjectResponses == { << >>, << "Alpha", "Beta" >> }

\* the text list_projects builds
FormatProjects(ps) ==
    << "Projects (" \o ToString(Len(ps)) \o " found)" >> \o ps

\* `analytics-${timeframe}-${includeInsights}`
AnalyticsKey(tf, ins) ==
    "analytics-" \o tf \o "-" \o (IF ins THEN "true" ELSE "false")

\* the score trend is the sum of the scores, not their mean
AnalyticsSumForMean(tf, ms) ==
    [timeframe |-> tf, metrics |-> ms,
     trends |-> [focusTime |-> Sum([i \in 1..Len(ms) |-> ms[i].totalFocusTime]),
                 productivityScore |->
                     [sum |-> Sum([i \in 1..Len(ms) |-> ms[i].productivityScore]),
                      days |-> 1],
                 consistency |-> 0]]

\* the RizeAnalytics object getAnalytics builds from the metrics; the mean
\* score is kept as the exact fraction sum / days
Analytics(tf, ms) ==
    [timeframe |-> tf, metrics |-> ms,
     trends |-> [focusTime |-> Sum([i \in 1..Len(ms) |-> ms[i].totalFocusTime]),
                 productivityScore |->
                     IF Len(ms) > 0
                     THEN [sum |-> Sum([i \in 1..Len(ms) |-> ms[i].productivityScore]),
                           days |-> Len(ms)]
                     ELSE [sum |-> 0, days |-> 1],
                 consistency |-> 0]]

NoAnalytics == Analytics("", << >>)

\* formatAnalytics: the lines of the text, emoji and blank lines left out
FormatAnalytics(a) ==
    << "Analytics Report (" \o a.timeframe \o ")",
       "Trends:",
       "Focus Time: " \o (IF a.trends.focusTime > 0 THEN "+" ELSE "") \o
           ToString(100 * a.trends.focusTime) \o ".0%",
       "Productivity Score: " \o (IF a.trends.productivityScore.sum > 0 THEN "+" ELSE "") \o
           ToFixed1(100 * a.trends.productivityScore.sum, a.trends.productivityScore.days) \o "%",
       "Consistency: 0.0%" >> \o
    (IF Len(a.metrics) > 0 THEN FormatProductivityMetrics(a.metrics) ELSE << >>)

NoCall ==
    [tool |-> "none", startDate |-> 0, endDate |-> 0, minDuration |-> 0,
     timeframe |-> "", includeInsights |-> FALSE, limit |-> 0]
NoRequest == [query |-> "none", from |-> 0, to |-> 0, window |-> "", first |-> 0]
NoReply ==
    [tool |-> "none", status |-> "none", logged |-> FALSE, metrics |-> << >>,
     user |-> Absent, sessions |-> << >>, analytics |-> NoAnalytics, text |-> << >>]

\* the handler returns
Result(tool) == [NoReply EXCEPT !.tool = tool, !.status = "ok"]
\* the handler's catch logs the error and rethrows it
Rethrown(tool) == [NoReply EXCEPT !.tool = tool, !.status = "error", !.logged = TRUE]

ToolInit ==
    /\ pc = "idle"
    /\ call = NoCall
    /\ remote = 0
    /\ sent = NoRequest
    /\ received = NoResponse
    /\ fetched = NeverFetched
    /\ looked = {}
    /\ reply = NoReply

\* get_productivity_metrics up to the await in getSummaries: validateInput
\* throws on a bad range (logged, rethrown); otherwise the GetSummaries
\* query is sent.  getSummaries reads no cache entry.
CallMetrics ==
    \E sd \in Dates, ed \in Dates :
        /\ << sd, ed >> \in RangeParams
        /\ pc = "idle"
        /\ looked' = {}
        /\ received' = NoResponse
        /\ call' = [NoCall EXCEPT !.tool = "get_productivity_metrics",
                                  !.startDate = sd, !.endDate = ed]
        /\ IF ValidRange(sd, ed)
           THEN /\ pc' = "summaries"
                /\ remote' = 1
                /\ sent' = [NoRequest EXCEPT !.query = "GetSummaries", !.from = sd, !.to = ed]
                /\ reply' = NoReply
           ELSE /\ reply' = Rethrown("get_productivity_metrics")
                /\ sent' = NoRequest
                /\ remote' = 0
                /\ UNCHANGED pc
        /\ UNCHANGED << cache, now, fetched >>
        /\ UNCHANGED << op, ret, hist, uses, normVars, dateVars, serverVars >>

\* the GetSummaries response arrives: the buckets are mapped, returned and
\* formatted; getSummaries writes no cache entry
SummariesOk ==
    \E bs \in Responses :
        /\ pc = "summaries"
        /\ received' = Answer("GetSummaries", bs)
        /\ reply' = [Result("get_productivity_metrics") EXCEPT
                        !.metrics = GetSummaries(received'),
                        !.text = FormatProductivityMetrics(GetSummaries(received'))]
        /\ fetched' = [range |-> << call.startDate, call.endDate >>, at |-> now]
        /\ pc' = "idle"
        /\ UNCHANGED << cache, now, call, remote, sent, looked >>
        /\ UNCHANGED << op, ret, hist, uses, normVars, dateVars, serverVars >>

\* the failed GetSummaries request is sent once more
SummariesFailRetry ==
    /\ pc = "summaries"
    /\ remote < 2
    /\ received' = Failure("GetSummaries")
    /\ remote' = remote + 1
    /\ UNCHANGED << cache, now, pc, call, sent, fetched, looked, reply >>
    /\ UNCHANGED << op, ret, hist, uses, normVars, dateVars, serverVars >>

\* the GetSummaries request fails: catch (error) { return [] }
SummariesFail ==
    /\ pc = "summaries"
    /\ received' = Failure("GetSummaries")
    /\ reply' = [Result("get_productivity_metrics") EXCEPT
                    !.metrics = GetSummaries(received'),
                    !.text = FormatProductivityMetrics(GetSummaries(received'))]
    /\ pc' = "idle"
    /\ UNCHANGED << cache, now, call, remote, sent, fetched, looked >>
    /\ UNCHANGED << op, ret, hist, uses, normVars, dateVars, serverVars >>

\* get_current_user up to the await in getCurrentUser: a cached user is
\* returned at once; otherwise the CurrentUser query is sent
CallCurrentUser ==
    LET r == CacheGet(cache, "current-user", now)
    IN  /\ pc = "idle"
        /\ looked' = {"current-user"}
        /\ received' = NoResponse
        /\ call' = [NoCall EXCEPT !.tool = "get_current_user"]
        /\ cache' = r.cache
        /\ IF r.ret # Absent
           THEN /\ reply' = [Result("get_current_user") EXCEPT !.user = r.ret]
                /\ sent' = NoRequest
                /\ remote' = 0
                /\ UNCHANGED pc
           ELSE /\ pc' = "currentUser"
                /\ remote' = 1
                /\ sent' = [NoRequest EXCEPT !.query = "CurrentUser"]
                /\ reply' = NoReply
        /\ UNCHANGED << now, fetched >>
        /\ UNCHANGED << op, ret, hist, uses, normVars, dateVars, serverVars >>

\* the CurrentUser response arrives: it is cached and returned
CurrentUserOk ==
    /\ pc = "currentUser"
    /\ received' = Answer("CurrentUser", << >>)
    /\ cache' = CacheSet(cache, "current-user", User, now)
    /\ reply' = [Result("get_current_user") EXCEPT !.user = User]
    /\ pc' = "idle"
    /\ UNCHANGED << now, call, remote, sent, fetched, looked >>
    /\ UNCHANGED << op, ret, hist, uses, normVars, dateVars, serverVars >>

\* the error is swallowed and an empty user is returned
CurrentUserFailSwallowed ==
    /\ pc = "currentUser"
    /\ received' = Failure("CurrentUser")
    /\ reply' = Result("get_current_user")
    /\ pc' = "idle"
    /\ UNCHANGED << cache, now, call, remote, sent, fetched, looked >>
    /\ UNCHANGED << op, ret, hist, uses, normVars, dateVars, serverVars >>

\* the CurrentUser request fails: the error reaches the handler, which logs
\* and rethrows it
CurrentUserFail ==
    /\ pc = "currentUser"
    /\ received' = Failure("CurrentUser")
    /\ reply' = Rethrown("get_current_user")
    /\ pc' = "idle"
    /\ UNCHANGED << cache, now, call, remote, sent, fetched, looked >>
    /\ UNCHANGED << op, ret, hist, uses, normVars, dateVars, serverVars >>

\* get_focus_sessions up to the await in getFocusSessions: validateInput
\* throws on a bad range; otherwise getFocusSessions(dateRange.startDate)
\* sends GetSessions from startDate to 23:59:59.999 of the same day
CallSessions ==
    \E sd \in Dates, ed \in Dates, md \in MinDurations :
        /\ << sd, ed >> \in RangeParams
        /\ pc = "idle"
        /\ looked' = {}
        /\ received' = NoResponse
        /\ call' = [NoCall EXCEPT !.tool = "get_focus_sessions", !.startDate = sd,
                                  !.endDate = ed, !.minDuration = md]
        /\ IF ValidRange(sd, ed)
           THEN /\ pc' = "sessions"
                /\ remote' = 1
                /\ sent' = [NoRequest EXCEPT !.query = "GetSessions", !.from = sd, !.to = sd]
                /\ reply' = NoReply
           ELSE /\ reply' = Rethrown("get_focus_sessions")
                /\ sent' = NoRequest
                /\ remote' = 0
                /\ UNCHANGED pc
        /\ UNCHANGED << cache, now, fetched >>
        /\ UNCHANGED << op, ret, hist, uses, normVars, dateVars, serverVars >>

\* the GetSessions response arrives: the sessions are mapped, filtered by
\* minDuration and formatted
SessionsOk ==
    \E ss \in SessionResponses :
        /\ pc = "sessions"
        /\ received' = Answer("GetSessions", ss)
        /\ LET kept == FilterSessions(GetFocusSessions(received'), call.minDuration)
           IN  reply' = [Result("get_focus_sessions") EXCEPT
                            !.sessions = kept, !.text = FormatFocusSessions(kept, zone)]
        /\ pc' = "idle"
        /\ UNCHANGED << cache, now, call, remote, sent, fetched, looked >>
        /\ UNCHANGED << op, ret, hist, uses, normVars, dateVars, serverVars >>

\* the GetSessions request fails: catch (error) { return [] }
SessionsFail ==
    /\ pc = "sessions"
    /\ received' = Failure("GetSessions")
    /\ LET kept == FilterSessions(GetFocusSessions(received'), call.minDuration)
       IN  reply' = [Result("get_focus_sessions") EXCEPT
                        !.sessions = kept, !.text = FormatFocusSessions(kept, zone)]
    /\ pc' = "idle"
    /\ UNCHANGED << cache, now, call, remote, sent, fetched, looked >>
    /\ UNCHANGED << op, ret, hist, uses, normVars, dateVars, serverVars >>

\* get_analytics_report up to the await in getAnalytics: validateInput throws
\* on a bad timeframe; a cached report is returned at once; otherwise
\* getSummaries is called for dates computed from the wall clock
CallAnalytics ==
    \E tf \in Timeframes, ins \in Insights :
        LET key == AnalyticsKey(tf, ins)
            r == CacheGet(cache, key, now)
            hit == CacheHas(cache, key, now)
        IN  /\ pc = "idle"
            /\ received' = NoResponse
            /\ call' = [NoCall EXCEPT !.tool = "get_analytics_report", !.timeframe = tf,
                                      !.includeInsights = ins]
            /\ IF ~ValidTimeframe(tf)
               THEN /\ reply' = Rethrown("get_analytics_report")
                    /\ looked' = {}
                    /\ sent' = NoRequest
                    /\ remote' = 0
                    /\ UNCHANGED << cache, pc >>
               ELSE /\ looked' = {key}
                    /\ cache' = r.cache
                    /\ IF hit
                       THEN /\ reply' = [Result("get_analytics_report") EXCEPT
                                            !.analytics = r.ret, !.text = FormatAnalytics(r.ret)]
                            /\ sent' = NoRequest
                            /\ remote' = 0
                            /\ UNCHANGED pc
                       ELSE /\ pc' = "analytics"
                            /\ remote' = 1
                            /\ sent' = [NoRequest EXCEPT !.query = "GetSummaries", !.window = tf]
                            /\ reply' = NoReply
            /\ UNCHANGED << now, fetched >>
            /\ UNCHANGED << op, ret, hist, uses, normVars, dateVars, serverVars >>

\* getSummaries returns inside getAnalytics, with the mapped buckets: the
\* report is built, cached and returned
AnalyticsOk ==
    \E bs \in Responses :
        /\ pc = "analytics"
        /\ received' = Answer("GetSummaries", bs)
        /\ LET a == Analytics(call.timeframe, GetSummaries(received'))
           IN  /\ cache' = CacheSet(cache, AnalyticsKey(call.timeframe, call.includeInsights),
                                    a, now)
               /\ reply' = [Result("get_analytics_report") EXCEPT
                               !.analytics = a, !.text = FormatAnalytics(a)]
        /\ pc' = "idle"
        /\ UNCHANGED << now, call, remote, sent, fetched, looked >>
        /\ UNCHANGED << op, ret, hist, uses, normVars, dateVars, serverVars >>

\* the GetSummaries request fails inside getAnalytics: getSummaries returns
\* [], and the report built from it is cached and returned all the same
AnalyticsFail ==
    /\ pc = "analytics"
    /\ received' = Failure("GetSummaries")
    /\ LET a == Analytics(call.timeframe, GetSummaries(received'))
       IN  /\ cache' = CacheSet(cache, AnalyticsKey(call.timeframe, call.includeInsights),
                                a, now)
           /\ reply' = [Result("get_analytics_report") EXCEPT
                           !.analytics = a, !.text = FormatAnalytics(a)]
    /\ pc' = "idle"
    /\ UNCHANGED << now, call, remote, sent, fetched, looked >>
    /\ UNCHANGED << op, ret, hist, uses, normVars, dateVars, serverVars >>

\* list_projects up to the await in getProjects: validateInput throws on a
\* limit outside 1..100; otherwise the GetProjects query is sent
CallListProjects ==
    \E l \in Limits :
        /\ pc = "idle"
        /\ looked' = {}
        /\ received' = NoResponse
        /\ call' = [NoCall EXCEPT !.tool = "list_projects", !.limit = l]
        /\ IF ValidLimit(l)
           THEN /\ pc' = "projects"
                /\ remote' = 1
                /\ sent' = [NoRequest EXCEPT !.query = "GetProjects", !.first = l]
                /\ reply' = NoReply
           ELSE /\ reply' = Rethrown("list_projects")
                /\ sent' = NoRequest
                /\ remote' = 0
                /\ UNCHANGED pc
        /\ UNCHANGED << cache, now, fetched >>
        /\ UNCHANGED << op, ret, hist, uses, normVars, dateVars, serverVars >>

\* the GetProjects response arrives: the projects are listed
ListProjectsOk ==
    \E ps \in ProjectResponses :
        /\ pc = "projects"
        /\ received' = Answer("GetProjects", ps)
        /\ reply' = [Result("list_projects") EXCEPT !.text = FormatProjects(ps)]
        /\ pc' = "idle"
        /\ UNCHANGED << cache, now, call, remote, sent, fetched, looked >>
        /\ UNCHANGED << op, ret, hist, uses, normVars, dateVars, serverVars >>

\* the GetProjects request fails: getProjects has no try, the error reaches
\* the handler, which logs and rethrows it
ListProjectsFail ==
    /\ pc = "projects"
    /\ received' = Failure("GetProjects")
    /\ reply' = Rethrown("list_projects")
    /\ pc' = "idle"
    /\ UNCHANGED << cache, now, call, remote, sent, fetched, looked >>
    /\ UNCHANGED << op, ret, hist, uses, normVars, dateVars, serverVars >>

\* create_project up to the await in createProject: the handler validates
\* nothing itself and the CreateProject mutation is sent
CallCreateProject ==
    /\ pc = "idle"
    /\ looked' = {}
    /\ received' = NoResponse
    /\ call' = [NoCall EXCEPT !.tool = "create_project"]
    /\ pc' = "createProject"
    /\ remote' = 1
    /\ sent' = [NoRequest EXCEPT !.query = "CreateProject"]
    /\ reply' = NoReply
    /\ UNCHANGED << cache, now, fetched >>
    /\ UNCHANGED << op, ret, hist, uses, normVars, dateVars, serverVars >>

\* the CreateProject response arrives: the new project is shown (its id and
\* locale-dependent creation date left out)
CreateProjectOk ==
    /\ pc = "createProject"
    /\ received' = Answer("CreateProject", << "Alpha" >>)
    /\ reply' = [Result("create_project") EXCEPT
                    !.text = << "Project created successfully!", "Alpha" >>]
    /\ pc' = "idle"
    /\ UNCHANGED << cache, now, call, remote, sent, fetched, looked >>
    /\ UNCHANGED << op, ret, hist, uses, normVars, dateVars, serverVars >>

\* the CreateProject mutation fails: createProject has no try, the error
\* reaches the handler, which logs and rethrows it
CreateProjectFail ==
    /\ pc = "createProject"
    /\ received' = Failure("CreateProject")
    /\ reply' = Rethrown("create_project")
    /\ pc' = "idle"
    /\ UNCHANGED << cache, now, call, remote, sent, fetched, looked >>
    /\ UNCHANGED << op, ret, hist, uses, normVars, dateVars, serverVars >>

\* time passes
ToolTick ==
    /\ now < MaxTime
    /\ now' = now + 1
    /\ fetched' = IF now' - fetched.at > Ttl THEN NeverFetched ELSE fetched
    /\ UNCHANGED << cache, pc, call, remote, sent, received, looked, reply >>
    /\ UNCHANGED << op, ret, hist, uses, normVars, dateVars, serverVars >>

----------------------------------------------------------------------------
(* The server process (index.ts): start-up, then the tool calls the MCP     *)
(* server dispatches.  A call is dispatched when its request arrives; a     *)
(* handler that awaits the remote stays in flight while later calls run.    *)
(* The tools are health_check and get_current_user, both of which go        *)
(* through RizeApiService.getCurrentUser.                                   *)

\* the calls that can be in flight at once
MaxTasks == 2
Slots == 1..MaxTasks

\* RIZE_API_KEY of process.env: absent and empty both read as ''
ApiKeys == {"", "key"}
\* rateLimiting as loadConfig reads it; the window is one tick of the clock
RateConfigs == [enabled : BOOLEAN, maxRequests : {1}, windowMs : {1}]
Envs == [apiKey : ApiKeys, rateLimiting : RateConfigs]
\* the environment of a server that is up
DefaultEnv ==
    [apiKey |-> "key",
     rateLimiting |-> [enabled |-> TRUE, maxRequests |-> 1, windowMs |-> 1]]

\* loadConfig: ConfigSchema.parse throws unless apiKey has a character;
\* cacheConfig and rateLimiting take any number
LoadConfig(e) == [threw |-> e.apiKey = "", config |-> e]

\* new AuthService(apiKey), from new RizeApiService: ApiKeySchema.parse
\* throws on the empty string
AuthServiceThrows(apiKey) == apiKey = ""

Loading == [state |-> "loading", exit |-> 0 - 1, connected |-> FALSE]
Serving == [state |-> "serving", exit |-> 0 - 1, connected |-> TRUE]
Exited(code) == [state |-> "exited", exit |-> code, connected |-> FALSE]

NoTask ==
    [tool |-> "none", pc |-> "free", requests |-> 0, answer |-> "none",
     result |-> "none", beyond |-> FALSE]
NoTasks == [i \in Slots |-> NoTask]
ServerTools == {"health_check", "get_current_user"}

\* the server is up and nothing is in flight
ProcIdle ==
    /\ env = DefaultEnv
    /\ proc = Serving
    /\ tasks = NoTasks
    /\ quota = 0

ServerIdle == ProcIdle /\ conf = BuiltCache

\* the process is started
ServerInit ==
    /\ env \in Envs
    /\ proc = Loading
    /\ tasks = NoTasks
    /\ quota = 0
    /\ conf = NoConf

\* the server connects its transport whatever the key
StartupUnchecked ==
    /\ proc.state = "loading"
    /\ proc' = Serving
    /\ conf' = BuiltCache
    /\ UNCHANGED << env, tasks, quota, cacheVars, normVars, dateVars, toolVars >>

\* the module is loaded and main() runs: loadConfig() (an exception at the
\* top level of the module ends the process with exit code 1), then
\* new RizeApiService(config.apiKey), then main(): without a key it throws
\* AuthenticationError, which its catch answers with process.exit(1);
\* otherwise the stdio transport is connected
Startup ==
    /\ proc.state = "loading"
    /\ LET c == LoadConfig(env)
       IN  IF c.threw
           THEN proc' = Exited(1) /\ conf' = conf
           ELSE IF AuthServiceThrows(c.config.apiKey)
                THEN proc' = Exited(1) /\ conf' = conf
                ELSE /\ conf' = BuiltCache
                     /\ proc' = IF c.config.apiKey = "" THEN Exited(1) ELSE Serving
    /\ UNCHANGED << env, tasks, quota, cacheVars, normVars, dateVars, toolVars >>

\* the calls of a window beyond maxRequests are turned away
RateLimitEnforced(rl, n) == rl.enabled => n < rl.maxRequests

\* what the handlers do with config.rateLimiting before they run: nothing,
\* whatever its values and however many calls the window has seen
RateLimitAllows(rl, n) == TRUE

\* what the tool returns once getCurrentUser has returned or thrown
Outcome(tool, ok) ==
    IF tool = "health_check"
    THEN (IF ok THEN "Healthy" ELSE "Unhealthy")
    ELSE (IF ok THEN "ok" ELSE "error")

\* a tool call arrives and its handler runs up to the await in
\* getCurrentUser: a cached user is returned at once, otherwise the
\* CurrentUser query is sent and the handler waits
Dispatch ==
    \E i \in Slots, tool \in ServerTools :
        LET rl == env.rateLimiting
            r == CacheGet(cache, "current-user", now)
            t == [NoTask EXCEPT !.tool = tool,
                                !.beyond = (rl.enabled /\ quota >= rl.maxRequests)]
        IN  /\ proc.state = "serving"
            /\ tasks[i].pc # "await"
            /\ quota' = IF quota < rl.maxRequests THEN quota + 1 ELSE quota
            /\ IF ~RateLimitAllows(rl, quota)
               THEN /\ tasks' = [tasks EXCEPT ![i] =
                                    [t EXCEPT !.pc = "done", !.result = "rate_limited"]]
                    /\ UNCHANGED cache
               ELSE /\ cache' = r.cache
                    /\ tasks' = [tasks EXCEPT ![i] =
                                    IF CacheHas(cache, "current-user", now)
                                    THEN [t EXCEPT !.pc = "done",
                                                   !.result = Outcome(tool, TRUE)]
                                    ELSE [t EXCEPT !.pc = "await", !.requests = 1]]
            /\ UNCHANGED << now, op, ret, hist, uses, conf, env, proc >>
            /\ UNCHANGED << normVars, dateVars, toolVars >>

\* the CurrentUser response arrives: the user is cached and the tool returns
RemoteAnswers ==
    \E i \in Slots :
        /\ tasks[i].pc = "await"
        /\ cache' = CacheSet(cache, "current-user", User, now)
        /\ tasks' = [tasks EXCEPT ![i] =
                        [@ EXCEPT !.pc = "done", !.answer = "ok",
                                  !.result = Outcome(tasks[i].tool, TRUE)]]
        /\ UNCHANGED << now, op, ret, hist, uses, conf, env, proc, quota >>
        /\ UNCHANGED << normVars, dateVars, toolVars >>

\* the CurrentUser request fails: health_check catches the error and
\* reports Unhealthy, get_current_user logs and rethrows it
RemoteFails ==
    \E i \in Slots :
        /\ tasks[i].pc = "await"
        /\ tasks' = [tasks EXCEPT ![i] =
                        [@ EXCEPT !.pc = "done", !.answer = "failed",
                                  !.result = Outcome(tasks[i].tool, FALSE)]]
        /\ UNCHANGED << cache, now, op, ret, hist, uses, conf, env, proc, quota >>
        /\ UNCHANGED << normVars, dateVars, toolVars >>

\* time passes and a new rate window begins
ServerTick ==
    /\ proc.state = "serving"
    /\ now < MaxTime
    /\ now' = now + 1
    /\ quota' = 0
    /\ UNCHANGED << cache, op, ret, hist, uses, conf, env, proc, tasks >>
    /\ UNCHANGED << normVars, dateVars, toolVars >>

----------------------------------------------------------------------------
(* Specifications *)

\* the server handling tool calls
Init == CacheInit /\ NormIdle /\ DateIdle /\ ToolInit /\ ServerIdle

Next ==
    \/ CallMetrics
    \/ SummariesOk
    \/ SummariesFail
    \/ CallCurrentUser
    \/ CurrentUserOk
    \/ CurrentUserFail
    \/ CallSessions
    \/ SessionsOk
    \/ SessionsFail
    \/ CallAnalytics
    \/ AnalyticsOk
    \/ AnalyticsFail
    \/ CallListProjects
    \/ ListProjectsOk
    \/ ListProjectsFail
    \/ CallCreateProject
    \/ CreateProjectOk
    \/ CreateProjectFail
    \/ ToolTick

Spec == Init /\ [][Next]_vars

\* a CacheService under arbitrary calls
NextCache ==
    \/ DoGet
    \/ DoSet
    \/ DoDelete
    \/ DoClear
    \/ DoHas
    \/ DoSize
    \/ DoTick

SpecCache == Init /\ [][NextCache]_vars

\* the normalizer on every bucket
InitNorm == CacheInit /\ NormInit /\ DateIdle /\ ToolInit /\ ServerIdle

NextNorm == MapBucket

SpecNorm == InitNorm /\ [][NextNorm]_vars

\* the date functions applied to one value
InitDate == CacheInit /\ NormIdle /\ DateInit /\ ToolInit /\ ServerIdle

NextDate ==
    \/ CallConvert
    \/ CallFormatDate
    \/ CallFormatDateTime

SpecDate == InitDate /\ [][NextDate]_vars

\* a cache is built with a ttl of 0 or below, then used
InitTtl == CacheInit /\ NormIdle /\ DateIdle /\ ToolInit /\ ProcIdle /\ conf = NoConf

NextTtl ==
    \/ Construct
    \/ BuiltSet
    \/ BuiltGet
    \/ BuiltHas
    \/ BuiltTick

SpecTtl == InitTtl /\ [][NextTtl]_vars

\* the process from its start: start-up, then overlapping tool calls
InitServer == CacheInit /\ NormIdle /\ DateIdle /\ ToolInit /\ ServerInit

NextServer ==
    \/ Startup
    \/ Dispatch
    \/ RemoteAnswers
    \/ RemoteFails
    \/ ServerTick

SpecServer == InitServer /\ [][NextServer]_vars

\* the same, where loading the module and running main() is not put off
\* for ever
SpecServerLive == SpecServer /\ WF_vars(Startup)

----------------------------------------------------------------------------
(* Properties of the CacheService, checked under SpecCache *)

\* the value the cache holds for k, whatever its age
Peek(c, k) == IF k \in KeysOf(c) THEN c[IndexOf(c, k)].value ELSE Absent

\* C1: get(key) returns a value only if the key was set, was not removed by
\* delete, clear or eviction since that set, and no more than ttl
\* milliseconds passed since that set; the value is the one that was set.
C1_GetNeverStale ==
    (op.name = "get" /\ ret.val # Absent) =>
        /\ hist[op.key].live
        /\ now - hist[op.key].at <= Ttl
        /\ ret.val = hist[op.key].val

\* a get found its entry older than ttl, dropped it and returned undefined
C1_Witness ==
    /\ op.name = "get"
    /\ op.removed = {op.key}
    /\ ret.val = Absent

\* C2: a set of a key the cache does not hold, on a cache holding maxSize
\* entries, removes exactly one key, the one whose last get or set is the
\* oldest, and leaves the cache holding maxSize entries, the new key among
\* them.
C2_EvictsExactlyLru ==
    (op.name = "set" /\ op.full) =>
        /\ op.removed = {op.lru}
        /\ op.key \in KeysOf(cache)
        /\ Len(cache) = MaxSize

\* a set on a full cache evicted one key, another than the one it set
C2_Witness ==
    /\ op.name = "set"
    /\ Cardinality(op.removed) = 1
    /\ op.key \notin op.removed
    /\ Len(cache) = MaxSize

\* C3: a get right after set(k, v) returns v, also when k held another value.
C3_SetThenGet ==
    (op.name = "get" /\ op.afterSet # "no") =>
        /\ ret.val # Absent
        /\ ret.val = hist[op.key].val

\* a get right after a set that replaced a different value
C3_Witness ==
    /\ op.name = "get"
    /\ op.afterSet = "overwrite"
    /\ ret.val \in Values

\* C4: delete(k) leaves has(k) false and get(k) undefined; a key removed
\* and not set again stays so; every key the history says is still set is
\* held with the value last set (delete and clear touch nothing else);
\* clear() leaves has false for every key and size 0.
C4_DeleteClear ==
    /\ op.name = "delete" =>
           /\ ~CacheHas(cache, op.key, now)
           /\ CacheGet(cache, op.key, now).ret = Absent
    /\ op.name = "clear" =>
           /\ \A k \in Keys : ~CacheHas(cache, k, now)
           /\ CacheSize(cache) = 0
    /\ \A k \in Keys :
           IF hist[k].live
           THEN /\ Peek(cache, k) = hist[k].val
                /\ CacheHas(cache, k, now) = (now - hist[k].at <= Ttl)
           ELSE /\ ~CacheHas(cache, k, now)
                /\ CacheGet(cache, k, now).ret = Absent

\* a delete removed a held key and another entry is still held
C4_Witness ==
    /\ op.name = "delete"
    /\ op.removed = {op.key}
    /\ Len(cache) > 0

\* the keys for which has(key) is true now
HasKeys == { k \in Keys : CacheHas(cache, k, now) }

\* C29: in every reachable state the cache holds at most maxSize entries
\* and size() equals the number of keys for which has(key) is true.
C29_SizeCountsHeldKeys ==
    /\ Len(cache) <= MaxSize
    /\ CacheSize(cache) = Cardinality(HasKeys)

----------------------------------------------------------------------------
(* Properties of a cache built with a ttl of 0 or below, checked under      *)
(* SpecTtl                                                                  *)

----------------------------------------------------------------------------
(* Properties of the server process, checked under SpecServer *)

\* no request was sent to the remote and no handler ran
NothingSent == \A i \in Slots : tasks[i].pc = "free" /\ tasks[i].requests = 0

\* C21: started without an API key (absent or empty), the process never
\* connects the transport and never sends a remote request, and it ends
\* with a non-zero exit status.
C21_NoKeyNoStart ==
    /\ [](env.apiKey = "" =>
              /\ proc.state \in {"loading", "exited"}
              /\ ~proc.connected
              /\ proc.state = "exited" => proc.exit > 0
              /\ NothingSent)
    /\ (env.apiKey = "") ~> (proc.state = "exited" /\ proc.exit > 0)

\* the process started without a key has exited with status 1
C21_Witness ==
    /\ env.apiKey = ""
    /\ proc = Exited(1)
    /\ NothingSent

Awaiting == { i \in Slots : tasks[i].pc = "await" }

\* C25: invocations never interleave: while one invocation is between its
\* cache lookup and its cache population, no other invocation has run its
\* own lookup, so at most one invocation is ever waiting for the remote.
C25_NoInterleaving == Cardinality(Awaiting) <= 1

\* C28: health_check never fails; it reports Healthy only if this very
\* invocation sent a CurrentUser request and the remote answered it; when
\* its request failed it reports Unhealthy.
C28_HealthyMeansRemoteAnswered ==
    \A i \in Slots :
        (tasks[i].tool = "health_check" /\ tasks[i].pc = "done") =>
            /\ tasks[i].result \in {"Healthy", "Unhealthy"}
            /\ tasks[i].result = "Healthy" =>
                   (tasks[i].requests = 1 /\ tasks[i].answer = "ok")
            /\ tasks[i].answer = "failed" => tasks[i].result = "Unhealthy"

----------------------------------------------------------------------------
(* Properties of the tool handlers, checked under Spec *)

\* the date range of the running invocation was fetched successfully no
\* more than ttl ago
FreshlyFetched ==
    /\ fetched.range = << call.startDate, call.endDate >>
    /\ fetched.at # 0 /\ now - fetched.at <= Ttl

\* C5: while a get_productivity_metrics call has a remote request in flight,
\* the call has looked up the cache first, and the same date range was not
\* fetched successfully within the last ttl (the stored result would have
\* answered the call).
C5_MetricsCacheAside ==
    pc = "summaries" =>
        /\ looked # {}
        /\ ~FreshlyFetched

\* the metrics getSummaries returned to the invocation that just replied
Returned_Summaries ==
    IF reply.tool = "get_analytics_report" THEN reply.analytics.metrics ELSE reply.metrics

\* C13: when the GetSummaries request fails, or the map callback throws on
\* a bucket of the batch, getSummaries returns the empty sequence: its
\* caller goes on normally and gets no partial list
C13_FailureGivesEmpty ==
    (/\ reply.tool \in {"get_productivity_metrics", "get_analytics_report"}
     /\ received.query = "GetSummaries"
     /\ (~received.ok \/ CallbackThrows(received.body))) =>
        /\ reply.status = "ok"
        /\ Returned_Summaries = << >>

\* the callback threw on the second bucket, after the first was mapped
C13_Witness ==
    /\ reply.tool = "get_productivity_metrics"
    /\ received.ok
    /\ Len(received.body) = 2 /\ IsNull(received.body[2])
    /\ reply.status = "ok" /\ reply.metrics = << >>

\* the parameters of the invocation fail validation
BadParams ==
    \/ /\ call.tool \in {"get_productivity_metrics", "get_focus_sessions"}
       /\ (call.startDate = 0 \/ call.endDate = 0 \/ call.startDate > call.endDate)
    \/ /\ call.tool = "get_analytics_report"
       /\ call.timeframe \notin {"day", "week", "month"}
    \/ /\ call.tool = "list_projects"
       /\ (call.limit < 1 \/ call.limit > 100)

\* C14: a call whose parameters fail validation is answered with the error
\* at once: no request is sent, no cache entry is looked up, and the step
\* leaves the cache as it was
C14_ValidationAborts ==
    /\ [](BadParams =>
            /\ pc = "idle"
            /\ reply.tool = call.tool /\ reply.status = "error"
            /\ remote = 0 /\ sent = NoRequest /\ looked = {})
    /\ [][BadParams' => cache' = cache]_vars

C14_Witness ==
    /\ call.tool = "get_focus_sessions"
    /\ call.startDate > call.endDate /\ call.endDate # 0
    /\ reply.status = "error"
    /\ cache # << >>

\* C15: when the remote call of create_project, list_projects or
\* get_current_user fails, the handler logs the error and fails with it, and
\* the failing step writes nothing to the cache (no user is cached)
C15_RemoteFailureSurfaces ==
    /\ []((/\ reply.tool \in {"create_project", "list_projects", "get_current_user"}
           /\ received.query # "none" /\ ~received.ok) =>
            /\ reply.status = "error" /\ reply.logged
            /\ reply.text = << >> /\ reply.user = Absent
            /\ reply.tool = "get_current_user" => "current-user" \notin KeysOf(cache))
    /\ [][(/\ pc \in {"createProject", "projects", "currentUser"}
           /\ pc' = "idle" /\ ~received'.ok) => cache' = cache]_vars

C15_Witness ==
    /\ reply.tool = "create_project"
    /\ received.query = "CreateProject" /\ ~received.ok
    /\ reply.status = "error"
    /\ cache # << >>

\* C19: when the remote answers a valid date range with zero buckets,
\* getSummaries returns the empty sequence and get_productivity_metrics
\* succeeds with the fixed no-data sentence
C19_NoBucketsNoData ==
    (/\ reply.tool = "get_productivity_metrics"
     /\ received.ok /\ received.body = << >>) =>
        /\ reply.status = "ok"
        /\ reply.metrics = << >>
        /\ reply.text = << "No productivity data available for the specified date range." >>

C19_Witness ==
    /\ reply.tool = "get_productivity_metrics"
    /\ received.query = "GetSummaries" /\ received.ok /\ received.body = << >>
    /\ reply.text = NoDataText

\* C20: the GetSessions request of get_focus_sessions asks for the window
\* from startDate to the end of endDate
C20_WindowCoversRange ==
    pc = "sessions" =>
        /\ sent.query = "GetSessions"
        /\ sent.from = call.startDate
        /\ sent.to = call.endDate

\* the remote request of the invocation that just replied had failed
FetchFailed == pc = "idle" /\ received.query # "none" /\ ~received.ok

\* C26: the cache is populated only with the results of successful remote
\* fetches: once an invocation whose remote request failed has replied, the
\* cache holds no entry under the key that invocation looked up.
C26_CachedOnlyOnSuccess ==
    FetchFailed => \A k \in looked : k \notin KeysOf(cache)

\* C24: there is no retry: an invocation sends at most one remote request;
\* a request is sent only by an invocation that starts, and the step in
\* which a request fails ends the invocation without sending anything.
C24_NoRetry ==
    /\ [](remote <= 1)
    /\ [][remote' # remote => pc = "idle"]_vars
    /\ [][(pc # "idle" /\ ~received'.ok /\ received'.query # "none") =>
              (pc' = "idle" /\ remote' = remote)]_vars

\* an invocation whose one request failed has replied
C24_Witness ==
    /\ FetchFailed
    /\ remote = 1
    /\ reply.tool = call.tool

\* the sum of field f over the first n metrics of ms
RECURSIVE SumOf(_, _, _)
SumOf(ms, f, n) == IF n = 0 THEN 0 ELSE SumOf(ms, f, n - 1) + ms[n][f]

\* the fraction p / q is the arithmetic mean of the productivityScore of ms,
\* or 0 when ms is empty
IsMeanScore(p, q, ms) ==
    IF Len(ms) = 0
    THEN p = 0 /\ q > 0
    ELSE q > 0 /\ p * Len(ms) = q * SumOf(ms, "productivityScore", Len(ms))

ClockSeconds(s) ==
    3600 * Num2(SubSeq(s, 12, 13)) + 60 * Num2(SubSeq(s, 15, 16)) + Num2(SubSeq(s, 18, 19))

\* the seconds from startTime to endTime of a raw session whose two
\* timestamps lie on one day in one zone; 0 when either is missing
Elapsed(x) ==
    IF x.startTime = << >> \/ x.endTime = << >> THEN 0
    ELSE ClockSeconds(x.endTime) - ClockSeconds(x.startTime)

\* the sessions the remote sent to the invocation that just replied
FetchedSessions == IF received.ok THEN received.body ELSE << >>

----------------------------------------------------------------------------
(* Properties of the normalizer, checked under SpecNorm *)

\* n is x / y rounded to the nearest integer, halves up (x >= 0, y > 0)
IsRounded(n, x, y) == 2 * n * y - y <= 2 * x /\ 2 * x < 2 * n * y + y

\* C6: productivityScore is round(focusTime / trackedTime * 100) on the raw
\* seconds when trackedTime > 0 (a missing focusTime counting as 0), and 0
\* when trackedTime is 0 or missing; 6337 s of 7200 s give 88, and 105 min.
C6_ScoreIsRoundedRatio ==
    npc = "mapped" =>
        /\ bucket.trackedTime > 0 =>
               IsRounded(metric.productivityScore,
                         100 * OrZero(bucket.focusTime), bucket.trackedTime)
        /\ bucket.trackedTime \in {0, Missing} => metric.productivityScore = 0
        /\ (bucket.focusTime = 6337 /\ bucket.trackedTime = 7200) =>
               /\ metric.productivityScore = 88
               /\ metric.totalFocusTime = 105

\* the bucket of the example was mapped
C6_Witness ==
    /\ npc = "mapped"
    /\ bucket.focusTime = 6337
    /\ bucket.trackedTime = 7200
    /\ metric.productivityScore = 88
    /\ metric.totalFocusTime = 105

\* C7: every productivityScore is an integer in 0..100.
C7_ScoreInRange ==
    npc = "mapped" => metric.productivityScore \in 0..100

\* the entries of the category list that hold the largest timeSpent
MaxEntries(cats) ==
    { i \in 1..Len(cats) : \A j \in 1..Len(cats) : cats[j].timeSpent <= cats[i].timeSpent }

\* the least number of a non-empty set of numbers
Least(S) == CHOOSE i \in S : \A j \in S : i <= j

\* C8: with a non-empty category list, topCategory is built from the first
\* entry of the list among those with the largest timeSpent.
C8_TopCategoryIsFirstMax ==
    (npc = "mapped" /\ HasCategories(bucket)) =>
        LET cats == bucket.categories.list
            top == cats[Least(MaxEntries(cats))]
        IN  /\ metric.topCategory.type = "object"
            /\ metric.topCategory.name = top.name
            /\ metric.topCategory.focus = top.focus
            /\ metric.topCategory.timeSpent = top.timeSpent \div 60

\* two entries tie for the largest timeSpent, under different names, and the
\* later one is the last of the list
C8_Witness ==
    /\ npc = "mapped"
    /\ HasCategories(bucket)
    /\ LET cats == bucket.categories.list
       IN  /\ Cardinality(MaxEntries(cats)) = 2
           /\ Len(cats) \in MaxEntries(cats)
           /\ cats[Least(MaxEntries(cats))].name # cats[Len(cats)].name
           /\ cats[1].timeSpent > 0

\* C9: topCategory is always a record with the fields name and timeSpent.
C9_TopCategoryIsRecord ==
    npc = "mapped" =>
        /\ metric.topCategory.type = "object"
        /\ {"name", "timeSpent"} \subseteq DOMAIN metric.topCategory

\* C10: with a missing or empty category list, topCategory is the one
\* placeholder 'Work' and focusSessionsCount is 0.
C10_PlaceholderWhenNoCategories ==
    (npc = "mapped" /\ ~HasCategories(bucket)) =>
        /\ metric.topCategory = [type |-> "string", str |-> "Work"]
        /\ metric.focusSessionsCount = 0

\* a bucket without a usable category list was mapped
C10_Witness ==
    /\ npc = "mapped"
    /\ ~HasCategories(bucket)
    /\ bucket.focusTime = 6337
    /\ metric.topCategory.type = "string"

\* C11: focusSessionsCount is 1 exactly when the bucket has categories and
\* the selected top category (the first entry with the greatest timeSpent)
\* has timeSpent > 0 seconds and is flagged focus; otherwise it is 0
C11_FocusSessionsCount ==
    npc = "mapped" =>
        LET cats == bucket.categories.list
            counted == /\ HasCategories(bucket)
                       /\ cats[Least(MaxEntries(cats))].timeSpent > 0
                       /\ cats[Least(MaxEntries(cats))].focus
        IN  /\ metric.focusSessionsCount \in {0, 1}
            /\ metric.focusSessionsCount = 1 <=> counted

\* a focus category of 30 seconds (0 whole minutes) is counted; a longer
\* non-focus category is not
C11_Witness ==
    /\ npc = "mapped"
    /\ metric.focusSessionsCount = 1
    /\ metric.topCategory.type = "object"
    /\ metric.topCategory.timeSpent = 0

\* C12: totalFocusTime, breakTime and distractionTime are the whole minutes
\* of the raw focusTime, breakTime and meetingTime seconds, a missing field
\* counting as 0, and contextSwitches is 0
IsFloorMinutes(m, secs) == 60 * m <= secs /\ secs < 60 * m + 60

Seconds(x) == IF x = Missing THEN 0 ELSE x

C12_WholeMinutes ==
    npc = "mapped" =>
        /\ IsFloorMinutes(metric.totalFocusTime, Seconds(bucket.focusTime))
        /\ IsFloorMinutes(metric.breakTime, Seconds(bucket.breakTime))
        /\ IsFloorMinutes(metric.distractionTime, Seconds(bucket.meetingTime))
        /\ metric.contextSwitches = 0

C12_Witness ==
    /\ npc = "mapped"
    /\ bucket.focusTime = 6337 /\ metric.totalFocusTime = 105
    /\ bucket.breakTime = 125 /\ metric.breakTime = 2
    /\ bucket.meetingTime = Missing /\ metric.distractionTime = 0

----------------------------------------------------------------------------
(* Properties of the date functions, checked under SpecDate *)

IsRizeStamp(d) == d.type = "string" /\ d.chars \in RizeStamps

\* C16: convertRizeDateToISO turns "YYYY-MM-DD HH:MM:SS +hhmm" into
\* "YYYY-MM-DDTHH:MM:SS+hh:mm": 'T' for the separating space, a colon in the
\* offset, and no space left in the result
C16_ConvertsToIso ==
    (dpc = "convertRizeDateToISO" /\ IsRizeStamp(stamp)) =>
        /\ ~shown.threw
        /\ \A i \in 1..Len(shown.chars) : shown.chars[i] # " "
        /\ \E d \in DayParts, t \in TimeParts, o \in OffsetParts :
              /\ Len(o) = 5
              /\ stamp.chars = d \o << " " >> \o t \o << " " >> \o o
              /\ shown.chars = d \o << "T" >> \o t \o SubSeq(o, 1, 3) \o << ":" >> \o SubSeq(o, 4, 5)

\* C17: formatDateTime renders "2025-09-05 04:00:00 +0200" as
\* "2025-09-05 04:00:00" and formatDate renders it as "2025-09-05"; no
\* timestamp of the remote's format renders as the Invalid placeholder
SampleStamp == Str(<< "2", "0", "2", "5", "-", "0", "9", "-", "0", "5", " ", "0", "4", ":", "0", "0", ":", "0", "0", " ", "+", "0", "2", "0", "0" >>)

C17_RendersRizeStamp ==
    /\ (dpc = "formatDateTime" /\ IsRizeStamp(stamp)) =>
          /\ shown.chars # InvalidDateTime
          /\ stamp = SampleStamp => shown.chars = << "2", "0", "2", "5", "-", "0", "9", "-", "0", "5", " ", "0", "4", ":", "0", "0", ":", "0", "0" >>
    /\ (dpc = "formatDate" /\ IsRizeStamp(stamp)) =>
          /\ shown.chars # InvalidDate
          /\ stamp = SampleStamp => shown.chars = << "2", "0", "2", "5", "-", "0", "9", "-", "0", "5" >>

\* C18: formatDate and formatDateTime never throw; a missing, non-string,
\* empty or unparsable value makes convertRizeDateToISO throw or parseISO
\* give an Invalid Date, and the formatter returns exactly "Invalid Date" or
\* "Invalid DateTime"
NotADate(d) == d.type # "string" \/ d.chars = << >> \/ d.chars \in Unparsable

C18_PlaceholderNeverThrows ==
    /\ dpc = "formatDate" =>
          /\ ~shown.threw
          /\ NotADate(stamp) => shown.chars = InvalidDate
    /\ dpc = "formatDateTime" =>
          /\ ~shown.threw
          /\ NotADate(stamp) => shown.chars = InvalidDateTime
    /\ (dpc = "convertRizeDateToISO" /\ (stamp.type # "string" \/ stamp.chars = << >>)) =>
          shown.threw

C18_Witness ==
    /\ dpc = "formatDateTime"
    /\ stamp.type = "undefined"
    /\ shown = Returned(InvalidDateTime)

\* a timestamp with the offset attached to the time is rendered in local time
DateRendered ==
    /\ dpc = "formatDateTime"
    /\ stamp = Str(<< "2", "0", "2", "5", "-", "0", "9", "-", "0", "5", " ", "0", "4", ":", "0", "0", ":", "0", "0", "+", "0", "2", "0", "0" >>)
    /\ zone = 120
    /\ shown = Returned(<< "2", "0", "2", "5", "-", "0", "9", "-", "0", "5", " ", "0", "4", ":", "0", "0", ":", "0", "0" >>)

====
